---- MODULE Spec2Model ----
(***************************************************************************)
(* IPv6 "lite stack" of DPVS (src/ipv6/ipv6.c): the protocol registry, the *)
(* receive validator ip6_rcv, route dispatch ip6_rcv_fin, the extension    *)
(* chain walker ip6_local_in_fin, the forwarding engine ip6_forward, the   *)
(* output engine ip6_output .. ip6_output_fin2 and ipv6_xmit.              *)
(*                                                                         *)
(* One core processes one packet at a time, run to completion; pc is the   *)
(* position of that core in the call chain.  The registry and the two      *)
(* configuration flags are the only state that outlives a packet.  The     *)
(* statistics are kept as the increments applied since the packet in       *)
(* flight entered the stack (the code never reads them back).              *)
(***************************************************************************)
EXTENDS Integers, FiniteSets, Sequences, TLC

\* ------------------------------------------------------------- bounds
MaxPayload == 2     \* largest declared payload length N
MaxTrail == 1       \* largest number K of trailing bytes behind the payload
MaxProt == 2        \* next-header values 0..MaxProt are modelled

\* ---------------------------------------------------- program constants
HdrLen == 40            \* sizeof(struct ip6_hdr)
NEXTHDR_HOP == 0
IPV6_MIN_MTU == 1280
IPV6_MAXPLEN == 65535
INET_DEF_TTL == 64

Prots == 0..MaxProt

\* protocol descriptors (struct inet6_protocol): a handler and the flags
Descs == {"ext", "fin"}
NULL == "NULL"
INET6_PROTO_F_FINAL(prot) == prot = "fin"

\* address classes of RFC 4291 that the code tells apart
ADDR_ANY == "::"
ADDR_LOOPBACK == "::1"
ADDR_LINKLOCAL == "fe80::1"
ADDR_GLOBAL == "2001:db8::1"
ADDR_MC0 == "ff00::1"
ADDR_MC1 == "ff01::1"
ADDR_MC2 == "ff02::1"
Addrs == {ADDR_ANY, ADDR_LOOPBACK, ADDR_LINKLOCAL, ADDR_GLOBAL,
          ADDR_MC0, ADDR_MC1, ADDR_MC2}

ipv6_addr_is_multicast(a) == a \in {ADDR_MC0, ADDR_MC1, ADDR_MC2}
ipv6_addr_loopback(a) == a = ADDR_LOOPBACK
ipv6_addr_any(a) == a = ADDR_ANY
IPV6_ADDR_MC_SCOPE(a) ==
    CASE a = ADDR_MC0 -> 0
      [] a = ADDR_MC1 -> 1
      [] a = ADDR_MC2 -> 2
      [] OTHER -> 0
\* ipv6_addr_type(): the set of class bits of an address
ipv6_addr_type(a) ==
    CASE a = ADDR_ANY -> {"IPV6_ADDR_ANY"}
      [] a = ADDR_LOOPBACK -> {"IPV6_ADDR_LOOPBACK", "IPV6_ADDR_UNICAST"}
      [] a = ADDR_LINKLOCAL -> {"IPV6_ADDR_LINKLOCAL", "IPV6_ADDR_UNICAST"}
      [] ipv6_addr_is_multicast(a) -> {"IPV6_ADDR_MULTICAST"}
      [] OTHER -> {"IPV6_ADDR_UNICAST"}

ETypes == {"ETH_PKT_HOST", "ETH_PKT_BROADCAST", "ETH_PKT_MULTICAST",
           "ETH_PKT_OTHERHOST"}

StatNames == {"inpkts", "inoctets", "indiscards", "inhdrerrors",
              "intruncatedpkts", "innoroutes", "inunknownprotos",
              "indelivers", "inmcastpkts", "inmcastoctets", "inaddrerrors",
              "intoobigerrors", "fragfails", "outforwdatagrams", "outpkts",
              "outoctets", "outdiscards", "outmcastpkts", "outmcastoctets",
              "outnoroutes"}

VARIABLES
    inet6_prots,            \* [Prots -> Descs \cup {NULL}]
    conf_ipv6_forwarding,   \* BOOLEAN
    conf_ipv6_disable,      \* BOOLEAN
    stats,                  \* this_ip6_stats, increments of the packet in flight
    pc,                     \* where the core is in the call chain
    mbuf,                   \* the packet in flight
    rt,                     \* the route the lookup returned for it
    walk,                   \* locals of ip6_local_in_fin
    acct,                   \* what has been done to the packet and its binding
    result,                 \* the value the entry point returned
    regop,                  \* the last registry call and its outcome
    inet6_prot_lock,        \* rte_rwlock_t: number of readers, -1 = writer
    boot                    \* what ipv6_init / ipv6_term brought up and down

vars == <<inet6_prots, conf_ipv6_forwarding, conf_ipv6_disable, stats, pc,
          mbuf, rt, walk, acct, result, regop, inet6_prot_lock, boot>>

\* ------------------------------------------------------------ records
Hdr(ver, src, dst, plen, nxt, hlim) ==
    [ver |-> ver, src |-> src, dst |-> dst, plen |-> plen, nxt |-> nxt,
     hlim |-> hlim]

\* a received frame: link-layer class, buffer length and the header bytes
Pkt(etype, len, hdr) == [packet_type |-> etype, pkt_len |-> len, hdr |-> hdr]

NoHdr == Hdr(0, ADDR_ANY, ADDR_ANY, 0, 0, 0)
\* data_off counts the bytes rte_pktmbuf_adj() has stripped from the front
NoMbuf == [packet_type |-> "ETH_PKT_HOST", pkt_len |-> 0, data_off |-> 0,
           l3_len |-> 0, userdata |-> NULL, hdr |-> NoHdr]

Route(flags, mtu, devmtu) ==
    [rt6_flags |-> flags, rt6_mtu |-> mtu, dev_mtu |-> devmtu]
NoRoute == Route({}, 0, 0)

NoWalk == [nexthdr |-> 0, have_final |-> FALSE, is_final |-> FALSE,
           handler |-> NULL, ret |-> 0]

\* Bookkeeping of one packet: calls of rte_pktmbuf_free, of route6_input /
\* route6_output that returned a binding, of route6_put, the places the
\* packet was given away to, the stages it went through, its length and
\* offset when the pre-routing hook was dispatched, what the handlers
\* invoked on it were, what inet_chk_mcast_addr answered in
\* ip6_mc_local_in, the hop limit it came in with, the TTL of the flow it
\* was sent for, and whether a handler was called whose descriptor was no
\* longer the one registered for the next header.
NoAcct == [freed |-> 0, gets |-> 0, puts |-> 0, kni |-> 0, consumed |-> 0,
           neigh |-> 0, stages |-> {}, hook_len |-> 0, dev |-> TRUE,
           entry_len |-> 0, rcv_exit |-> "none", final_called |-> FALSE,
           nonfinal_after_final |-> FALSE, last_ret |-> 0,
           member |-> "none", entry_hlim |-> 0, fl6_ttl |-> 0,
           stale_call |-> FALSE]

ZeroStats == [f \in StatNames |-> 0]

\* the record of the last registry call; dropped when a packet comes in
NoRegop == [op |-> "none", prot |-> NULL, protocol |-> 0, err |-> "NONE"]

IP6_INC_STATS(s, f) == [s EXCEPT ![f] = @ + 1]
IP6_ADD_STATS(s, f, val) == [s EXCEPT ![f] = @ + val]
IP6_UPD_PO_STATS(s, f, val) ==
    IF f = "in" THEN [s EXCEPT !["inpkts"] = @ + 1, !["inoctets"] = @ + val]
    ELSE IF f = "out"
    THEN [s EXCEPT !["outpkts"] = @ + 1, !["outoctets"] = @ + val]
    ELSE IF f = "inmcast"
    THEN [s EXCEPT !["inmcastpkts"] = @ + 1, !["inmcastoctets"] = @ + val]
    ELSE [s EXCEPT !["outmcastpkts"] = @ + 1, !["outmcastoctets"] = @ + val]

\* the sub-components ipv6_init brings up, in its order: the extension
\* headers, the receive classifier (netif_register_pkt), the control plane
Components == {"exthdrs", "pkt", "ctrl"}
\* up: initialised now; started / unwound: what the last ipv6_init call
\* initialised with success and what it tore down again
Running == [status |-> "running", up |-> Components, started |-> Components,
            unwound |-> {}]

\* ---------------------------------------------------------------- Init
\* the state ipv6_init leaves when every step succeeds: ip6_prot_init()
\* has emptied the table; both flags default to false
Init ==
    /\ inet6_prots = [p \in Prots |-> NULL]
    /\ conf_ipv6_forwarding = FALSE
    /\ conf_ipv6_disable = FALSE
    /\ stats = ZeroStats
    /\ pc = "idle"
    /\ mbuf = NoMbuf
    /\ rt = NoRoute
    /\ walk = NoWalk
    /\ acct = NoAcct
    /\ result = "NONE"
    /\ regop = NoRegop
    /\ inet6_prot_lock = 0
    /\ boot = Running

Idle == pc = "idle"
PktVars == <<stats, pc, mbuf, rt, walk, acct, result>>
CfgVars == <<conf_ipv6_forwarding, conf_ipv6_disable>>
SysVars == <<inet6_prot_lock, boot>>

\* ------------------------------------------------------------ registry
RegisterSlot_overwrite(tbl, prot, protocol) ==
    [tbl EXCEPT ![protocol] = prot]
RegisterSlot(tbl, prot, protocol) ==
    IF tbl[protocol] # NULL THEN tbl ELSE [tbl EXCEPT ![protocol] = prot]
RegisterErr(tbl, prot, protocol) ==
    IF tbl[protocol] # NULL THEN "EDPVS_EXIST" ELSE "EDPVS_OK"

\* the write lock is free when no reader holds the lock; the call takes
\* it, changes the table and releases it
rte_rwlock_write_lock(l) == l = 0

ipv6_register_protocol(prot, protocol) ==
    /\ rte_rwlock_write_lock(inet6_prot_lock)
    /\ inet6_prots' = RegisterSlot(inet6_prots, prot, protocol)
    /\ regop' = [op |-> "register", prot |-> prot, protocol |-> protocol,
                 err |-> RegisterErr(inet6_prots, prot, protocol)]
    /\ UNCHANGED <<CfgVars, PktVars, SysVars>>

UnregisterSlot(tbl, prot, protocol) ==
    IF tbl[protocol] # prot THEN tbl ELSE [tbl EXCEPT ![protocol] = NULL]
UnregisterErr(tbl, prot, protocol) ==
    IF tbl[protocol] # prot THEN "EDPVS_NOTEXIST" ELSE "EDPVS_OK"

ipv6_unregister_protocol(prot, protocol) ==
    /\ rte_rwlock_write_lock(inet6_prot_lock)
    /\ inet6_prots' = UnregisterSlot(inet6_prots, prot, protocol)
    /\ regop' = [op |-> "unregister", prot |-> prot, protocol |-> protocol,
                 err |-> UnregisterErr(inet6_prots, prot, protocol)]
    /\ UNCHANGED <<CfgVars, PktVars, SysVars>>

\* --------------------------------------------------- module init / term
\* ip6_prot_init empties the registry under the write lock
ip6_prot_init(tbl) == [p \in Prots |-> NULL]

\* the sub-components whose init call returned success, given which of
\* ipv6_exthdrs_init, netif_register_pkt, ipv6_ctrl_init fails (each is
\* called only if the ones before it succeeded)
InitStarted(e_ext, e_pkt, e_ctrl) ==
    IF e_ext THEN {}
    ELSE IF e_pkt THEN {"exthdrs"}
    ELSE IF e_ctrl THEN {"exthdrs", "pkt"}
    ELSE Components

\* the sub-components whose teardown ipv6_init calls before it returns:
\* reg_pkt_err runs ipv6_exthdrs_term and falls through to ctrl_err, which
\* runs netif_unregister_pkt
InitUnwound(e_ext, e_pkt, e_ctrl) ==
    IF e_ext THEN {}
    ELSE IF e_pkt THEN {"exthdrs", "pkt"}
    ELSE IF e_ctrl THEN {"pkt"}
    ELSE {}

ipv6_init(e_ext, e_pkt, e_ctrl) ==
    /\ boot.status = "stopped"
    /\ rte_rwlock_write_lock(inet6_prot_lock)
    /\ inet6_prots' = ip6_prot_init(inet6_prots)
    /\ LET started == InitStarted(e_ext, e_pkt, e_ctrl)
           unwound == InitUnwound(e_ext, e_pkt, e_ctrl)
       IN boot' = [status |-> IF e_ext \/ e_pkt \/ e_ctrl
                               THEN "init_failed" ELSE "running",
                   up |-> started \ unwound,
                   started |-> started,
                   unwound |-> unwound]
    /\ UNCHANGED <<inet6_prot_lock, CfgVars, PktVars, regop>>

\* ipv6_term stops at the first teardown that fails: ipv6_ctrl_term, then
\* netif_unregister_pkt, then ipv6_exthdrs_term (which cannot fail)
TermDown(t_ctrl, t_pkt) ==
    IF t_ctrl THEN {}
    ELSE IF t_pkt THEN {"ctrl"}
    ELSE Components

ipv6_term(t_ctrl, t_pkt) ==
    /\ boot.status = "running"
    /\ boot' = [boot EXCEPT
                  !.status = IF t_ctrl \/ t_pkt
                             THEN "term_failed" ELSE "stopped",
                  !.up = @ \ TermDown(t_ctrl, t_pkt)]
    /\ UNCHANGED <<inet6_prots, inet6_prot_lock, CfgVars, PktVars, regop>>

\* ------------------------------------------------------- configuration
\* the keyword handlers read "on", "off" or anything else from the file
ConfStrs == {"on", "off", "bad"}
ConfValue(old, str) ==
    IF str = "on" THEN TRUE ELSE IF str = "off" THEN FALSE ELSE old

ip6_conf_forward(str) ==
    /\ Idle
    /\ conf_ipv6_forwarding' = ConfValue(conf_ipv6_forwarding, str)
    /\ UNCHANGED <<inet6_prots, SysVars, conf_ipv6_disable, PktVars, regop>>

ip6_conf_disable(str) ==
    /\ Idle
    /\ conf_ipv6_disable' = ConfValue(conf_ipv6_disable, str)
    /\ UNCHANGED <<inet6_prots, SysVars, conf_ipv6_forwarding, PktVars, regop>>

\* ------------------------------------------------------ packet ending
\* The entry point has returned: the lcore loop is free to take the next
\* packet, and the bookkeeping of the last one is dropped.
Return ==
    /\ pc = "done"
    /\ pc' = "idle"
    /\ stats' = ZeroStats
    /\ mbuf' = NoMbuf
    /\ rt' = NoRoute
    /\ walk' = NoWalk
    /\ acct' = NoAcct
    /\ result' = "NONE"
    /\ UNCHANGED <<inet6_prots, SysVars, CfgVars, regop>>

\* rte_pktmbuf_free(mbuf)
Free(a) == [a EXCEPT !.freed = @ + 1]
\* route6_put(rt)
route6_put(a) == [a EXCEPT !.puts = @ + 1]
Stage(a, s) == [a EXCEPT !.stages = @ \cup {s}]

\* ------------------------------------------------- hooks (inet.c, INET_HOOK)
\* The hooks registered at a stage either accept the packet, and the
\* terminal function runs, or drop it, and the pipeline frees it.
HookPcs == {"hook_pre", "hook_local_in", "hook_forward", "hook_post",
            "hook_local_out"}
OkFn(stage) ==
    CASE stage = "hook_pre" -> "ip6_rcv_fin"
      [] stage = "hook_local_in" -> "ip6_local_in_fin"
      [] stage = "hook_forward" -> "ip6_forward_fin"
      [] stage = "hook_post" -> "ip6_output_fin"
      [] stage = "hook_local_out" -> "ip6_output"

INET_HOOK(verdict) ==
    /\ pc \in HookPcs
    /\ IF verdict = "INET_ACCEPT"
       THEN /\ pc' = OkFn(pc)
            /\ UNCHANGED <<acct, result>>
       ELSE /\ pc' = "done"
            /\ acct' = Free(Stage(acct, "hook_drop"))
            /\ result' = "EDPVS_DROP"
    /\ UNCHANGED <<inet6_prots, SysVars, CfgVars, stats, mbuf, rt, walk, regop>>

\* ------------------------------------------------------------- ip6_rcv
OtherHost(etype, dev) == etype = "ETH_PKT_OTHERHOST" \/ ~dev
\* mbuf_may_pull(mbuf, sizeof(*hdr)) != 0
ShortHeader(len) == len < HdrLen
BadVersion_skipped(hdr) == FALSE
BadVersion(hdr) == hdr.ver # 6
LoopbackAddr(hdr) ==
    ipv6_addr_loopback(hdr.src) \/ ipv6_addr_loopback(hdr.dst)
McastIfLocal_skipped(hdr) == FALSE
McastIfLocal(hdr) ==
    ipv6_addr_is_multicast(hdr.dst) /\ IPV6_ADDR_MC_SCOPE(hdr.dst) = 1
UnicastInL2Mcast(etype, hdr) ==
    /\ ~ipv6_addr_is_multicast(hdr.dst)
    /\ etype \in {"ETH_PKT_BROADCAST", "ETH_PKT_MULTICAST"}
McastScope0(hdr) ==
    ipv6_addr_is_multicast(hdr.dst) /\ IPV6_ADDR_MC_SCOPE(hdr.dst) = 0
McastSource(hdr) == ipv6_addr_is_multicast(hdr.src)

\* the checks that end at the err label before the length is looked at
HeaderError(p) ==
    \/ ShortHeader(p.pkt_len)
    \/ BadVersion(p.hdr)
    \/ LoopbackAddr(p.hdr)
    \/ McastIfLocal(p.hdr)
    \/ UnicastInL2Mcast(p.packet_type, p.hdr)
    \/ McastScope0(p.hdr)
    \/ McastSource(p.hdr)

\* tot_len = pkt_len + sizeof(*hdr), and the condition guarding the check
TotLen(hdr) == hdr.plen + HdrLen
LenChecked(hdr) == hdr.plen # 0 \/ hdr.nxt # NEXTHDR_HOP
Truncated(p) == LenChecked(p.hdr) /\ TotLen(p.hdr) > p.pkt_len
NeedTrim(p) == LenChecked(p.hdr) /\ p.pkt_len > TotLen(p.hdr)
\* the packet length after rte_pktmbuf_trim(mbuf, pkt_len - tot_len)
TrimmedLen_untrimmed(p) == p.pkt_len
TrimmedLen(p) == IF NeedTrim(p) THEN TotLen(p.hdr) ELSE p.pkt_len

\* Where ip6_rcv leaves: "other" (freed at once), "disabled", the err
\* label (from a header check, the trim or the hop-by-hop parser),
\* "truncated", or "hook" (the pre-routing hook is dispatched).  trimOk is
\* the outcome of rte_pktmbuf_trim, hop the one of ipv6_parse_hopopts: -1
\* when it fails, else the size it adds to l3_len.
RcvExit(p, dev, disable, trimOk, hop) ==
    IF OtherHost(p.packet_type, dev) THEN "other"
    ELSE IF disable THEN "disabled"
    ELSE IF HeaderError(p) THEN "err_hdr"
    ELSE IF Truncated(p) THEN "truncated"
    ELSE IF NeedTrim(p) /\ ~trimOk THEN "err_trim"
    ELSE IF p.hdr.nxt = NEXTHDR_HOP /\ hop < 0 THEN "err_hop"
    ELSE "hook"

RcvStats(p, exit) ==
    LET in == IP6_UPD_PO_STATS(ZeroStats, "in", p.pkt_len) IN
    CASE exit = "other" -> ZeroStats
      [] exit = "disabled" -> IP6_INC_STATS(in, "indiscards")
      [] exit \in {"err_hdr", "err_trim", "err_hop"} ->
            IP6_INC_STATS(in, "inhdrerrors")
      [] exit = "truncated" -> IP6_INC_STATS(in, "intruncatedpkts")
      [] OTHER -> in

ip6_rcv(p, dev, trimOk, hop) ==
    /\ Idle
    /\ LET exit == RcvExit(p, dev, conf_ipv6_disable, trimOk, hop)
           len == TrimmedLen(p)
           l3 == IF p.hdr.nxt = NEXTHDR_HOP THEN HdrLen + hop ELSE HdrLen
           a0 == [NoAcct EXCEPT !.dev = dev, !.entry_len = p.pkt_len,
                                !.rcv_exit = exit, !.stages = {"ip6_rcv"},
                                !.entry_hlim = p.hdr.hlim]
       IN /\ stats' = RcvStats(p, exit)
          /\ IF exit = "hook"
             THEN /\ mbuf' = [NoMbuf EXCEPT !.packet_type = p.packet_type,
                                            !.pkt_len = len, !.l3_len = l3,
                                            !.hdr = p.hdr]
                  /\ acct' = [Stage(a0, "hook_pre") EXCEPT !.hook_len = len]
                  /\ pc' = "hook_pre"
                  /\ result' = "NONE"
             ELSE /\ mbuf' = [NoMbuf EXCEPT !.packet_type = p.packet_type,
                                            !.pkt_len = p.pkt_len,
                                            !.hdr = p.hdr]
                  /\ acct' = Free(a0)
                  /\ pc' = "done"
                  /\ result' = "EDPVS_DROP"
    /\ rt' = NoRoute
    /\ walk' = NoWalk
    /\ regop' = NoRegop
    /\ UNCHANGED <<inet6_prots, SysVars, CfgVars>>

\* --------------------------------------------------------- ip6_rcv_fin
\* what route6_input() may return: no route, or a binding
Lookup(found, r) == [found |-> found, route |-> r]

\* the branch ip6_rcv_fin takes
RcvFinBranch_mcast_first(lk, hdr, etype) ==
    IF ~lk.found THEN "noroute"
    ELSE IF "IPV6_ADDR_MULTICAST" \in ipv6_addr_type(hdr.dst)
    THEN "mc_local_in"
    ELSE IF "RTF_LOCALIN" \in lk.route.rt6_flags THEN "local_in"
    ELSE IF "RTF_FORWARD" \in lk.route.rt6_flags
    THEN (IF etype # "ETH_PKT_HOST" THEN "kni" ELSE "forward")
    ELSE "nomatch"
RcvFinBranch(lk, hdr, etype) ==
    IF ~lk.found THEN "noroute"
    ELSE IF "RTF_LOCALIN" \in lk.route.rt6_flags THEN "local_in"
    ELSE IF "IPV6_ADDR_MULTICAST" \in ipv6_addr_type(hdr.dst)
    THEN "mc_local_in"
    ELSE IF "RTF_FORWARD" \in lk.route.rt6_flags
    THEN (IF etype # "ETH_PKT_HOST" THEN "kni" ELSE "forward")
    ELSE "nomatch"

ip6_rcv_fin(lk) ==
    /\ pc = "ip6_rcv_fin"
    /\ LET br == RcvFinBranch(lk, mbuf.hdr, mbuf.packet_type)
           a0 == Stage(acct, "route6_input")
           a1 == IF lk.found THEN [a0 EXCEPT !.gets = @ + 1] ELSE a0
       IN /\ rt' = IF lk.found THEN lk.route ELSE NoRoute
          /\ stats' = IF br \in {"noroute", "nomatch"}
                      THEN IP6_INC_STATS(stats, "innoroutes") ELSE stats
          /\ CASE br = "local_in" ->
                    /\ pc' = "hook_local_in"
                    /\ mbuf' = [mbuf EXCEPT !.userdata = "rt"]
                    /\ acct' = Stage(a1, "hook_local_in")
                    /\ UNCHANGED result
               [] br = "mc_local_in" ->
                    /\ pc' = "ip6_mc_local_in"
                    /\ mbuf' = [mbuf EXCEPT !.userdata = "rt"]
                    /\ acct' = a1
                    /\ UNCHANGED result
               [] br = "forward" ->
                    /\ pc' = "ip6_forward"
                    /\ mbuf' = [mbuf EXCEPT !.userdata = "rt"]
                    /\ acct' = a1
                    /\ UNCHANGED result
               [] OTHER ->
                    \* kni: if (rt) { route6_put(rt); userdata = NULL; }
                    /\ pc' = "done"
                    /\ mbuf' = [mbuf EXCEPT !.userdata = NULL]
                    /\ acct' = [(IF lk.found THEN route6_put(a1) ELSE a1)
                                  EXCEPT !.kni = @ + 1]
                    /\ result' = "EDPVS_KNICONTINUE"
    /\ UNCHANGED <<inet6_prots, SysVars, CfgVars, walk, regop>>

\* ----------------------------------------------------- ip6_mc_local_in
\* a member goes on to ip6_local_in with the binding still attached; for
\* the others route6_put(rt) and the packet is left to the kni
McRelease_twice(a, member) ==
    IF member THEN route6_put(a) ELSE [route6_put(a) EXCEPT !.kni = @ + 1]
McRelease(a, member) ==
    IF member THEN a ELSE [route6_put(a) EXCEPT !.kni = @ + 1]

\* member is the answer of inet_chk_mcast_addr()
ip6_mc_local_in(member) ==
    /\ pc = "ip6_mc_local_in"
    /\ stats' = IP6_UPD_PO_STATS(stats, "inmcast", mbuf.pkt_len)
    /\ IF member
       THEN /\ pc' = "hook_local_in"
            /\ acct' = [McRelease(Stage(acct, "hook_local_in"), member)
                          EXCEPT !.member = "yes"]
            /\ UNCHANGED result
       ELSE /\ pc' = "done"
            /\ acct' = [McRelease(Stage(acct, "mc_nonmember"), member)
                          EXCEPT !.member = "no"]
            /\ result' = "EDPVS_KNICONTINUE"
    /\ UNCHANGED <<inet6_prots, SysVars, CfgVars, mbuf, rt, walk, regop>>

\* ---------------------------------------------------- ip6_local_in_fin
\* entry: release the route saved in userdata, publish the header instead
ip6_local_in_fin ==
    /\ pc = "ip6_local_in_fin"
    /\ acct' = IF mbuf.userdata = "rt" THEN route6_put(acct) ELSE acct
    /\ mbuf' = [mbuf EXCEPT !.userdata = "hdr"]
    /\ walk' = [NoWalk EXCEPT !.nexthdr = mbuf.hdr.nxt]
    /\ pc' = "resubmit"
    /\ UNCHANGED <<inet6_prots, SysVars, CfgVars, stats, rt, result, regop>>

\* discard: IP6_INC_STATS(indiscards); rte_pktmbuf_free(mbuf); why names
\* the goto that led here
Discard(why) ==
    /\ stats' = IP6_INC_STATS(stats, "indiscards")
    /\ acct' = Free(Stage(acct, why))
    /\ result' = "EDPVS_INVAL"
    /\ pc' = "done"

\* rte_pktmbuf_adj(m, len) == NULL
AdjFails(m, len) == len > m.pkt_len

\* resubmit: strip l3_len bytes from the front
resubmit ==
    /\ pc = "resubmit"
    /\ IF AdjFails(mbuf, mbuf.l3_len)
       THEN /\ Discard("adj_fail")
            /\ UNCHANGED mbuf
       ELSE /\ mbuf' = [mbuf EXCEPT !.pkt_len = @ - mbuf.l3_len,
                                    !.data_off = @ + mbuf.l3_len]
            /\ pc' = "resubmit_final"
            /\ UNCHANGED <<stats, acct, result>>
    /\ UNCHANGED <<inet6_prots, SysVars, CfgVars, rt, walk, regop>>

\* "final proto don't allow encap non-final"
BadEncap_unchecked(have_final, is_final) == FALSE
BadEncap(have_final, is_final) == have_final /\ ~is_final
\* the first final protocol of a multicast packet needs the membership
McastRefused(have_final, is_final, hdr, member) ==
    ~have_final /\ is_final /\ ipv6_addr_is_multicast(hdr.dst) /\ ~member

\* rte_rwlock_read_lock / rte_rwlock_read_unlock on the reader count
rte_rwlock_read_lock(l) == l + 1
rte_rwlock_read_unlock(l) == l - 1

\* resubmit_final: take the read lock of the registry
resubmit_final ==
    /\ pc = "resubmit_final"
    /\ inet6_prot_lock >= 0
    /\ inet6_prot_lock' = rte_rwlock_read_lock(inet6_prot_lock)
    /\ pc' = "read_locked"
    /\ UNCHANGED <<inet6_prots, boot, CfgVars, stats, mbuf, rt, walk, acct,
                   result, regop>>

\* the lookup of the next header under the read lock, which every way out
\* releases: no protocol (kni), non-final after final (discard), refused
\* multicast (kni), or on to the handler
prot_lookup(member) ==
    /\ pc = "read_locked"
    /\ inet6_prot_lock' = rte_rwlock_read_unlock(inet6_prot_lock)
    /\ LET prot == inet6_prots[walk.nexthdr]
           is_final == INET6_PROTO_F_FINAL(prot)
       IN IF prot = NULL
          THEN /\ stats' = IP6_INC_STATS(stats, "inunknownprotos")
               /\ acct' = [acct EXCEPT !.kni = @ + 1]
               /\ result' = "EDPVS_KNICONTINUE"
               /\ pc' = "done"
               /\ UNCHANGED walk
          ELSE IF BadEncap(walk.have_final, is_final)
          THEN /\ Discard("bad_encap")
               /\ walk' = [walk EXCEPT !.is_final = is_final]
          ELSE IF McastRefused(walk.have_final, is_final, mbuf.hdr, member)
          THEN /\ acct' = [acct EXCEPT !.kni = @ + 1]
               /\ result' = "EDPVS_KNICONTINUE"
               /\ pc' = "done"
               /\ walk' = [walk EXCEPT !.is_final = is_final,
                                       !.have_final = TRUE]
               /\ UNCHANGED stats
          ELSE /\ walk' = [walk EXCEPT !.is_final = is_final,
                                       !.have_final = @ \/ is_final,
                                       !.handler = prot]
               /\ pc' = "handler"
               /\ UNCHANGED <<stats, acct, result>>
    /\ UNCHANGED <<inet6_prots, boot, CfgVars, mbuf, rt, regop>>

\* what the walker does with the handler's return value
Continues(ret) == ret > 0
WalkResult(ret) == IF ret = 0 THEN "EDPVS_OK" ELSE "RET_HANDLER"

\* ret = handler(mbuf): the handler returns ret and, when it goes on,
\* leaves the size of the header it consumed in l3_len
handler(ret, l3) ==
    /\ pc = "handler"
    /\ walk' = [walk EXCEPT !.ret = ret,
                            !.nexthdr = IF Continues(ret) THEN ret ELSE @]
    /\ acct' = [acct EXCEPT
                  !.stages = @ \cup {"handler"},
                  !.stale_call =
                      @ \/ inet6_prots[walk.nexthdr] # walk.handler,
                  !.nonfinal_after_final =
                      @ \/ (acct.final_called /\ walk.handler # "fin"),
                  !.final_called = @ \/ walk.handler = "fin",
                  !.last_ret = ret,
                  !.consumed = IF Continues(ret) THEN @ ELSE @ + 1]
    /\ IF Continues(ret)
       THEN /\ mbuf' = [mbuf EXCEPT !.l3_len = l3]
            /\ pc' = IF walk.is_final THEN "resubmit_final" ELSE "resubmit"
            /\ UNCHANGED <<stats, result>>
       ELSE /\ stats' = IP6_INC_STATS(stats, "indelivers")
            /\ result' = WalkResult(ret)
            /\ pc' = "done"
            /\ UNCHANGED mbuf
    /\ UNCHANGED <<inet6_prots, SysVars, CfgVars, rt, regop>>

\* --------------------------------------------------------- ip6_forward
ip6_mtu_forward(r) ==
    IF r.rt6_mtu # 0 THEN r.rt6_mtu
    ELSE IF r.dev_mtu # 0 THEN r.dev_mtu
    ELSE IPV6_MIN_MTU

\* mtu = ip6_mtu_forward(rt); if (mtu < IPV6_MIN_MTU) mtu = IPV6_MIN_MTU
ForwardMtu(r) ==
    IF ip6_mtu_forward(r) < IPV6_MIN_MTU THEN IPV6_MIN_MTU
    ELSE ip6_mtu_forward(r)

HopLimitExceeded_zero(hdr) == hdr.hlim <= 0
HopLimitExceeded(hdr) == hdr.hlim <= 1

BadForwardSource_nolinklocal(src) ==
    LET addrtype == ipv6_addr_type(src) IN
    \/ addrtype = {"IPV6_ADDR_ANY"}
    \/ addrtype \cap {"IPV6_ADDR_MULTICAST", "IPV6_ADDR_LOOPBACK"} # {}
BadForwardSource(src) ==
    LET addrtype == ipv6_addr_type(src) IN
    \/ addrtype = {"IPV6_ADDR_ANY"}
    \/ addrtype \cap {"IPV6_ADDR_MULTICAST", "IPV6_ADDR_LOOPBACK"} # {}
    \/ "IPV6_ADDR_LINKLOCAL" \in addrtype

\* Where ip6_forward leaves: "error" (inaddrerrors), "drop", "hoplimit",
\* "toobig", or "hook" (the forward hook is dispatched)
ForwardExit(m, r, forwarding) ==
    IF ~forwarding THEN "error"
    ELSE IF m.packet_type # "ETH_PKT_HOST" THEN "drop"
    ELSE IF ipv6_addr_is_multicast(m.hdr.dst) THEN "error"
    ELSE IF HopLimitExceeded(m.hdr) THEN "hoplimit"
    ELSE IF BadForwardSource(m.hdr.src) THEN "error"
    ELSE IF m.pkt_len > ForwardMtu(r) THEN "toobig"
    ELSE "hook"

ForwardStats(s, exit) ==
    CASE exit = "error" -> IP6_INC_STATS(s, "inaddrerrors")
      [] exit = "hoplimit" -> IP6_INC_STATS(s, "inhdrerrors")
      [] exit = "toobig" ->
            IP6_INC_STATS(IP6_INC_STATS(s, "intoobigerrors"), "fragfails")
      [] OTHER -> s

\* every way out of ip6_forward but the hook: rte_pktmbuf_free(mbuf) and
\* return EDPVS_INVAL, with the binding left in userdata
ForwardDrop_nofree(a) == a
ForwardDrop(a) == Free(a)

ip6_forward ==
    /\ pc = "ip6_forward"
    /\ LET exit == ForwardExit(mbuf, rt, conf_ipv6_forwarding)
           a0 == Stage(acct, "ip6_forward")
       IN /\ stats' = ForwardStats(stats, exit)
          /\ IF exit = "hook"
             THEN /\ mbuf' = [mbuf EXCEPT !.hdr.hlim = @ - 1]
                  /\ acct' = Stage(a0, "hook_forward")
                  /\ pc' = "hook_forward"
                  /\ UNCHANGED result
             ELSE /\ acct' = ForwardDrop(Stage(a0, exit))
                  /\ result' = "EDPVS_INVAL"
                  /\ pc' = "done"
                  /\ UNCHANGED mbuf
    /\ UNCHANGED <<inet6_prots, SysVars, CfgVars, rt, walk, regop>>

ip6_forward_fin ==
    /\ pc = "ip6_forward_fin"
    /\ stats' = IP6_ADD_STATS(IP6_INC_STATS(stats, "outforwdatagrams"),
                              "outoctets", mbuf.pkt_len)
    /\ pc' = "ip6_output"
    /\ UNCHANGED <<inet6_prots, SysVars, CfgVars, mbuf, rt, walk, acct, result,
                   regop>>

\* ---------------------------------------------------------- ip6_output
ip6_output ==
    /\ pc = "ip6_output"
    /\ LET s0 == IP6_UPD_PO_STATS(stats, "out", mbuf.pkt_len)
           a0 == Stage(acct, "ip6_output")
       IN IF conf_ipv6_disable
          THEN /\ stats' = IP6_INC_STATS(s0, "outdiscards")
               /\ acct' = Free(route6_put(a0))
               /\ result' = "EDPVS_OK"
               /\ pc' = "done"
          ELSE /\ stats' = s0
               /\ acct' = Stage(a0, "hook_post")
               /\ pc' = "hook_post"
               /\ UNCHANGED result
    /\ UNCHANGED <<inet6_prots, SysVars, CfgVars, mbuf, rt, walk, regop>>

\* if (mbuf->pkt_len > rt->rt6_mtu) return ip6_fragment(...)
NeedFragment(m, r) == m.pkt_len > r.rt6_mtu

\* ip6_output_fin2: multicast of node-local scope or below is discarded
NodeLocalMcast(hdr) ==
    ipv6_addr_is_multicast(hdr.dst) /\ IPV6_ADDR_MC_SCOPE(hdr.dst) <= 1

\* ip6_output_fin, with ip6_fragment and ip6_output_fin2 it calls
ip6_output_fin ==
    /\ pc = "ip6_output_fin"
    /\ pc' = "done"
    /\ IF NeedFragment(mbuf, rt)
       THEN \* ip6_fragment
            /\ stats' = IP6_INC_STATS(stats, "fragfails")
            /\ acct' = Free(route6_put(Stage(acct, "ip6_fragment")))
            /\ result' = "EDPVS_FRAG"
       ELSE \* ip6_output_fin2
            LET s0 == IF ipv6_addr_is_multicast(mbuf.hdr.dst)
                      THEN IP6_UPD_PO_STATS(stats, "outmcast", mbuf.pkt_len)
                      ELSE stats
            IN IF NodeLocalMcast(mbuf.hdr)
               THEN /\ stats' = IP6_INC_STATS(s0, "outdiscards")
                    /\ acct' = route6_put(Free(Stage(acct, "nodelocal")))
                    /\ result' = "EDPVS_INVAL"
               ELSE /\ stats' = s0
                    /\ acct' = route6_put([Stage(acct, "neigh_output")
                                             EXCEPT !.neigh = @ + 1])
                    /\ result' = "RET_NEIGH"
    /\ UNCHANGED <<inet6_prots, SysVars, CfgVars, mbuf, rt, walk, regop>>

\* ----------------------------------------------------------- ipv6_xmit
\* the flow the caller hands over
Flow(daddr, saddr, proto, ttl) ==
    [fl6_daddr |-> daddr, fl6_saddr |-> saddr, fl6_proto |-> proto,
     fl6_ttl |-> ttl]

IPPROTO_ICMPV6 == 58
\* hdr->ip6_plen = htons(mbuf->pkt_len - sizeof(*hdr)), a 16-bit field
XmitPlen(len) == (len - HdrLen) % 65536
XmitHlim(ttl) == IF ttl # 0 THEN ttl ELSE INET_DEF_TTL
XmitTooBig_with_header(len) == len > IPV6_MAXPLEN + HdrLen
XmitTooBig(len) == len > IPV6_MAXPLEN

\* have: the mbuf pointer is not NULL; len: its length; fl6: the flow, or
\* NULL; lk: what route6_output returns; room: rte_pktmbuf_prepend finds
\* headroom; sel: the address inet_addr_select picks
ipv6_xmit(have, len, fl6ok, fl6, lk, room, sel) ==
    /\ Idle
    /\ rt' = IF lk.found THEN lk.route ELSE NoRoute
    /\ walk' = NoWalk
    /\ LET a0 == [NoAcct EXCEPT !.entry_len = len, !.stages = {"ipv6_xmit"}]
           m0 == [NoMbuf EXCEPT !.pkt_len = len]
       IN IF ~have \/ ~fl6ok \/ ipv6_addr_any(fl6.fl6_daddr)
          THEN /\ acct' = IF have THEN Free(a0) ELSE Stage(a0, "null_mbuf")
               /\ mbuf' = m0
               /\ stats' = ZeroStats
               /\ result' = "EDPVS_INVAL"
               /\ pc' = "done"
          ELSE IF XmitTooBig(len)
          THEN /\ acct' = Free(a0)
               /\ mbuf' = m0
               /\ stats' = IP6_INC_STATS(ZeroStats, "outdiscards")
               /\ result' = "EDPVS_NOROOM"
               /\ pc' = "done"
          ELSE IF ~lk.found
          THEN /\ acct' = Free(Stage(a0, "route6_output"))
               /\ mbuf' = m0
               /\ stats' = IP6_INC_STATS(ZeroStats, "outnoroutes")
               /\ result' = "EDPVS_NOROUTE"
               /\ pc' = "done"
          ELSE IF ~room
          THEN /\ acct' = Free(route6_put(
                             [Stage(a0, "route6_output") EXCEPT !.gets = 1]))
               /\ mbuf' = [m0 EXCEPT !.userdata = "rt"]
               /\ stats' = IP6_INC_STATS(ZeroStats, "outdiscards")
               /\ result' = "EDPVS_NOROOM"
               /\ pc' = "done"
          ELSE /\ acct' = [Stage(Stage(a0, "route6_output"), "hook_local_out")
                             EXCEPT !.gets = 1, !.fl6_ttl = fl6.fl6_ttl]
               /\ mbuf' = [m0 EXCEPT
                     !.userdata = "rt",
                     !.pkt_len = len + HdrLen,
                     !.hdr = Hdr(6,
                                 IF ipv6_addr_any(fl6.fl6_saddr)
                                    /\ fl6.fl6_proto # IPPROTO_ICMPV6
                                 THEN sel ELSE fl6.fl6_saddr,
                                 fl6.fl6_daddr, XmitPlen(len + HdrLen),
                                 fl6.fl6_proto, XmitHlim(fl6.fl6_ttl))]
               /\ stats' = ZeroStats
               /\ result' = "NONE"
               /\ pc' = "hook_local_out"
    /\ regop' = NoRegop
    /\ UNCHANGED <<inet6_prots, SysVars, CfgVars>>


\* ------------------------------------------------------ the environment
\* what the collaborators may answer
Verdicts == {"INET_ACCEPT", "INET_DROP"}
RouteFlags == SUBSET {"RTF_LOCALIN", "RTF_FORWARD"}
Routes == {Route(f, m, dm) : f \in RouteFlags, m \in {0, IPV6_MIN_MTU},
                             dm \in {0, 1500}}
Lookups == {Lookup(FALSE, NoRoute)} \cup {Lookup(TRUE, r) : r \in Routes}
\* routes whose device reports no MTU
MainLookups == {lk \in Lookups : lk.route.dev_mtu = 0}
\* a handler returns a negative value, zero, or the next header
HandlerRets == -1..MaxProt
\* the header sizes the extension parsers leave in l3_len
ExtLens == 0..MaxPayload
HopResults == {-1} \cup ExtLens

\* buffers: one byte short of a header, or a header and 0..N+K bytes
BufLens == {HdrLen - 1} \cup {HdrLen + n : n \in 0..(MaxPayload + MaxTrail)}
PayloadLens == 0..MaxPayload

\* every frame of the bounded domain; the validator reads no hop limit
\* (nor the scope of a multicast source)
SrcAddrs == Addrs \ {ADDR_MC0, ADDR_MC1}
AllPkts == {Pkt(e, len, Hdr(v, s, d, pl, nx, INET_DEF_TTL)) :
              e \in ETypes, len \in BufLens, v \in {4, 6}, s \in SrcAddrs,
              d \in Addrs, pl \in PayloadLens, nx \in {NEXTHDR_HOP, 1}}

\* well-formed frames for the local host, every next header
LocalPkts == {Pkt(e, HdrLen + MaxPayload,
                  Hdr(6, ADDR_GLOBAL, d, MaxPayload, nx, INET_DEF_TTL)) :
                e \in {"ETH_PKT_HOST", "ETH_PKT_MULTICAST"},
                d \in {ADDR_GLOBAL, ADDR_MC2}, nx \in Prots}
\* well-formed transit frames, and one a byte longer than the minimum MTU
\* (its next header is one no protocol of MainRegCalls is registered for)
TransitPkts == {Pkt("ETH_PKT_HOST", HdrLen + MaxPayload,
                    Hdr(6, s, ADDR_GLOBAL, MaxPayload, 1, hl)) :
                  s \in {ADDR_GLOBAL, ADDR_LINKLOCAL, ADDR_ANY},
                  hl \in {0, 1, 2}}
               \cup {Pkt("ETH_PKT_HOST", IPV6_MIN_MTU + 1,
                         Hdr(6, ADDR_GLOBAL, ADDR_GLOBAL,
                             IPV6_MIN_MTU + 1 - HdrLen, NEXTHDR_HOP, 2))}
\* frames the validator rejects
BadPkts == {Pkt("ETH_PKT_OTHERHOST", HdrLen,
                Hdr(6, ADDR_GLOBAL, ADDR_GLOBAL, 0, 1, 2)),
            Pkt("ETH_PKT_HOST", HdrLen,
                Hdr(4, ADDR_GLOBAL, ADDR_GLOBAL, 0, 1, 2)),
            Pkt("ETH_PKT_HOST", HdrLen,
                Hdr(6, ADDR_GLOBAL, ADDR_GLOBAL, 1, 1, 2)),
            Pkt("ETH_PKT_HOST", HdrLen + 1,
                Hdr(6, ADDR_GLOBAL, ADDR_MC1, 1, 1, 2))}
MainPkts == LocalPkts \cup TransitPkts \cup BadPkts

AllRegCalls == (Descs \cup {NULL}) \X Prots
MainRegCalls == {<<"ext", 1>>, <<"fin", 2>>}

Flows == {Flow(d, s, pr, ttl) : d \in {ADDR_ANY, ADDR_GLOBAL, ADDR_MC1},
                                s \in {ADDR_ANY, ADDR_GLOBAL},
                                pr \in {1, IPPROTO_ICMPV6}, ttl \in {0, 1}}
XmitLens == {MaxPayload, IPV6_MAXPLEN, IPV6_MAXPLEN + 1}

\* ------------------------------------------------------- specifications
\* rte_pktmbuf_trim and ipv6_parse_hopopts answer only when they are called
Receive(pkts) ==
    /\ Idle
    /\ \E p \in pkts, dev \in BOOLEAN :
         \E trimOk \in (IF NeedTrim(p) THEN BOOLEAN ELSE {TRUE}),
            hop \in (IF p.hdr.nxt = NEXTHDR_HOP THEN HopResults ELSE {0}) :
           ip6_rcv(p, dev, trimOk, hop)

Transmit(lookups) ==
    /\ Idle
    /\ \E have \in BOOLEAN, len \in XmitLens, fl6ok \in BOOLEAN,
          fl6 \in Flows, lk \in lookups, room \in BOOLEAN :
           ipv6_xmit(have, len, fl6ok, fl6, lk, room, ADDR_GLOBAL)

Register(calls) == \E c \in calls : ipv6_register_protocol(c[1], c[2])
Unregister(calls) == \E c \in calls : ipv6_unregister_protocol(c[1], c[2])
ConfForward == \E str \in ConfStrs : ip6_conf_forward(str)
ConfDisable == \E str \in ConfStrs : ip6_conf_disable(str)
Hook == \E verdict \in Verdicts : INET_HOOK(verdict)
RcvFin(lookups) == \E lk \in lookups : ip6_rcv_fin(lk)
McLocalIn == \E member \in BOOLEAN : ip6_mc_local_in(member)
ProtLookup == \E member \in BOOLEAN : prot_lookup(member)
Handler == \E ret \in HandlerRets, l3 \in ExtLens : handler(ret, l3)

\* the stages a packet goes through once it is in
Stages(lookups) ==
    \/ Hook
    \/ RcvFin(lookups)
    \/ McLocalIn
    \/ ip6_local_in_fin
    \/ resubmit
    \/ resubmit_final
    \/ ProtLookup
    \/ Handler
    \/ ip6_forward
    \/ ip6_forward_fin
    \/ ip6_output
    \/ ip6_output_fin
    \/ Return

\* Spec: both entry points, and registry calls from another core at any
\* moment
Next ==
    \/ Register(MainRegCalls)
    \/ Unregister(MainRegCalls)
    \/ ConfForward
    \/ ConfDisable
    \/ Receive(MainPkts)
    \/ Transmit(MainLookups)
    \/ Stages(MainLookups)

Spec == Init /\ [][Next]_vars

\* SpecReg: the registry alone, every descriptor on every slot
NextReg ==
    \/ Register(AllRegCalls)
    \/ Unregister(AllRegCalls)

SpecReg == Init /\ [][NextReg]_vars

\* SpecInit: the module taken down and brought up again, every sub-component
\* failing or not, with the registry used in between
Ipv6Init == \E e_ext, e_pkt, e_ctrl \in BOOLEAN : ipv6_init(e_ext, e_pkt, e_ctrl)
Ipv6Term == \E t_ctrl, t_pkt \in BOOLEAN : ipv6_term(t_ctrl, t_pkt)

NextInit ==
    \/ Ipv6Init
    \/ Ipv6Term
    \/ Register(AllRegCalls)
    \/ Unregister(AllRegCalls)

SpecInit == Init /\ [][NextInit]_vars

\* SpecFwd: receive() of transit frames of every size around the MTUs, with
\* routes of every MTU setting, through ip6_forward to the output engine
FwdRoutes == {Route(f, m, dm) : f \in {{}, {"RTF_FORWARD"}},
                                m \in {0, 1000, IPV6_MIN_MTU, 1500},
                                dm \in {0, 1500}}
FwdLookups == {Lookup(FALSE, NoRoute)} \cup {Lookup(TRUE, r) : r \in FwdRoutes}
FwdPkts == TransitPkts
           \cup {Pkt("ETH_PKT_HOST", len,
                     Hdr(6, ADDR_GLOBAL, ADDR_GLOBAL, len - HdrLen, 1, hl)) :
                   len \in {1000, 1001, IPV6_MIN_MTU, 1500, 1501},
                   hl \in {2, INET_DEF_TTL}}
NextFwd ==
    \/ ConfForward
    \/ ConfDisable
    \/ Receive(FwdPkts)
    \/ Hook
    \/ RcvFin(FwdLookups)
    \/ ip6_forward
    \/ ip6_forward_fin
    \/ ip6_output
    \/ ip6_output_fin
    \/ Return

SpecFwd == Init /\ [][NextFwd]_vars

\* SpecWalk: local delivery with handlers that keep the return contract
\* (zero = consumed, positive = next header with the size of the header
\* consumed, at least one byte, left in l3_len).  The core runs a packet to
\* completion without suspension: a stage that can run does run.
ContractRets == 0..MaxProt
ContractLens == 1..MaxPayload
HandlerContract ==
    \E ret \in ContractRets, l3 \in ContractLens : handler(ret, l3)
WalkLookups == {lk \in MainLookups : lk.found
                   /\ "RTF_LOCALIN" \in lk.route.rt6_flags
                   /\ lk.route.rt6_mtu = 0}
WalkStep ==
    \/ Hook
    \/ RcvFin(WalkLookups)
    \/ ip6_local_in_fin
    \/ resubmit
    \/ resubmit_final
    \/ ProtLookup
    \/ HandlerContract
NextWalk ==
    \/ Register(MainRegCalls)
    \/ Unregister(MainRegCalls)
    \/ Receive(LocalPkts)
    \/ WalkStep
    \/ Return

SpecWalk == Init /\ [][NextWalk]_vars /\ WF_vars(WalkStep)

\* SpecRcv: receive() on every frame of the bounded domain, with routes
\* to the local host only
RcvLookups == {lk \in MainLookups : "RTF_FORWARD" \notin lk.route.rt6_flags
                                    /\ lk.route.rt6_mtu = 0}
NextRcv ==
    \/ Register(MainRegCalls)
    \/ ConfDisable
    \/ Receive(AllPkts)
    \/ Hook
    \/ RcvFin(RcvLookups)
    \/ McLocalIn
    \/ ip6_local_in_fin
    \/ resubmit
    \/ resubmit_final
    \/ ProtLookup
    \/ Handler
    \/ Return

SpecRcv == Init /\ [][NextRcv]_vars

\* ---------------------------------------------------------- properties
Done == pc = "done"
InFlight == pc \notin {"idle", "done"}
\* the ways a packet is resolved: freed, left to the kni, consumed by a
\* protocol handler, given to the neighbour layer
Resolutions == acct.freed + acct.kni + acct.consumed + acct.neigh

\* C1: a packet that route lookup attached a binding to, and that no hook
\* dropped, ends with the binding released exactly once on every exit path
\* of receive() and transmit().
C1_BindingReleasedOnEveryExit ==
    (Done /\ acct.gets = 1 /\ "hook_drop" \notin acct.stages)
        => acct.puts = 1

\* C2: in no reachable state has the binding of the packet in flight been
\* released more than once.
C2_NoDoubleRelease == acct.puts <= 1

C2_Witness ==
    /\ Done
    /\ acct.puts = 1
    /\ acct.stages \cap {"neigh_output", "mc_nonmember", "handler",
                         "ip6_fragment"} # {}

\* C3: when receive() or transmit() returns, the packet it was given has
\* been resolved exactly once (freed, handed to the external consumer,
\* consumed by a handler, or given to link-layer resolution), and it is not
\* resolved while a stage still holds it.
C3_ResolvedExactlyOnce ==
    /\ (Done /\ "null_mbuf" \notin acct.stages) => Resolutions = 1
    /\ InFlight => Resolutions = 0
    /\ acct.freed <= 1

C3_Witness ==
    /\ Done
    /\ Resolutions = 1
    /\ acct.stages \cap {"ip6_forward", "handler", "neigh_output"} # {}

\* C9: once a final-protocol handler has been invoked on a packet no
\* non-final handler is invoked on it; a non-final descriptor looked up
\* after a final one ends the walk with the packet freed, a discard
\* counted, and the handler of that descriptor not called.
C9_NoNonFinalAfterFinal ==
    /\ ~acct.nonfinal_after_final
    /\ (walk.have_final /\ ~walk.is_final) =>
          /\ Done
          /\ acct.freed = 1
          /\ stats["indiscards"] = 1
          /\ result = "EDPVS_INVAL"
          /\ walk.handler = "fin"

C9_Witness ==
    /\ Done
    /\ walk.have_final
    /\ ~walk.is_final
    /\ acct.final_called

C4_BadVersionCountedAlways ==
    ("ip6_rcv" \in acct.stages /\ mbuf.hdr.ver # 6) =>
        /\ Done
        /\ acct.freed = 1
        /\ result = "EDPVS_DROP"
        /\ "handler" \notin acct.stages
        /\ stats["inhdrerrors"] = 1

\* C4 (amended): a received buffer whose version field is not 6 is always
\* dropped and no handler is invoked; the header-error counter is
\* incremented exactly when the frame is not other-host, the device is
\* present and the stack is not disabled.
C4_BadVersionDropped ==
    ("ip6_rcv" \in acct.stages /\ mbuf.hdr.ver # 6) =>
        /\ Done
        /\ acct.freed = 1
        /\ result = "EDPVS_DROP"
        /\ "handler" \notin acct.stages
        /\ (stats["inhdrerrors"] = 1) <=>
              (/\ mbuf.packet_type # "ETH_PKT_OTHERHOST"
               /\ acct.dev
               /\ ~conf_ipv6_disable)
        /\ stats["inhdrerrors"] <= 1

C4_Witness ==
    /\ Done
    /\ "ip6_rcv" \in acct.stages
    /\ mbuf.hdr.ver # 6
    /\ acct.entry_len >= 40
    /\ stats["inhdrerrors"] = 1

\* the rejection conditions of the receive validator, on the frame as it
\* came in
IsMcast(a) == a \in {"ff00::1", "ff01::1", "ff02::1"}
C5_Rejected ==
    \/ mbuf.packet_type = "ETH_PKT_OTHERHOST"
    \/ ~acct.dev
    \/ acct.entry_len < 40
    \/ mbuf.hdr.ver # 6
    \/ mbuf.hdr.src = "::1"
    \/ mbuf.hdr.dst = "::1"
    \/ mbuf.hdr.dst \in {"ff00::1", "ff01::1"}
    \/ (~IsMcast(mbuf.hdr.dst)
        /\ mbuf.packet_type \in {"ETH_PKT_BROADCAST", "ETH_PKT_MULTICAST"})
    \/ IsMcast(mbuf.hdr.src)
    \/ mbuf.hdr.plen + 40 > acct.entry_len
    \/ acct.rcv_exit = "err_hop"

C5_FreedUnseen ==
    /\ Done
    /\ acct.freed = 1
    /\ acct.stages \cap {"hook_pre", "route6_input", "handler"} = {}

\* C5 (as stated): a packet that meets a rejection condition is freed with
\* no pre-routing hook, route lookup or handler invoked, and a destination
\* multicast of scope 1 is counted as a header error.
C5_RejectedAndScope1Counted ==
    "ip6_rcv" \in acct.stages =>
        /\ C5_Rejected => C5_FreedUnseen
        /\ mbuf.hdr.dst = "ff01::1" => stats["inhdrerrors"] = 1

\* C5 (amended): a packet that meets a rejection condition is freed with
\* no pre-routing hook, route lookup or handler invoked; a destination
\* multicast of scope 1 is counted as a header error when the frame is not
\* other-host, the device is present and the stack is not disabled.
C5_RejectedFreed ==
    "ip6_rcv" \in acct.stages =>
        /\ C5_Rejected => C5_FreedUnseen
        /\ (/\ mbuf.hdr.dst = "ff01::1"
            /\ mbuf.packet_type # "ETH_PKT_OTHERHOST"
            /\ acct.dev
            /\ ~conf_ipv6_disable) => stats["inhdrerrors"] = 1

C5_Witness ==
    /\ Done
    /\ "ip6_rcv" \in acct.stages
    /\ mbuf.hdr.dst = "ff01::1"
    /\ mbuf.hdr.ver = 6
    /\ mbuf.hdr.src = "2001:db8::1"
    /\ acct.entry_len = mbuf.hdr.plen + 40
    /\ stats["inhdrerrors"] = 1

\* C6 (as stated): a buffer that passes validation and declares N bytes of
\* payload is N + 40 bytes long when the pre-routing hook is dispatched,
\* for every number K of trailing bytes and every N.
C6_TrimmedToDeclared ==
    "hook_pre" \in acct.stages => acct.hook_len = mbuf.hdr.plen + 40

\* C6 (amended): a buffer that passes validation and declares N bytes of
\* payload is N + 40 bytes long when the pre-routing hook is dispatched,
\* for every K, unless N = 0 and the next header is hop-by-hop (the
\* jumbogram signal): then it is not trimmed and keeps its 40 + K bytes.
C6_TrimmedUnlessJumbo ==
    "hook_pre" \in acct.stages =>
        acct.hook_len = IF mbuf.hdr.plen = 0 /\ mbuf.hdr.nxt = 0
                        THEN acct.entry_len
                        ELSE mbuf.hdr.plen + 40

C6_Witness ==
    /\ "hook_pre" \in acct.stages
    /\ acct.entry_len > acct.hook_len
    /\ acct.hook_len = mbuf.hdr.plen + 40

\* C7: a register on an occupied slot fails with EDPVS_EXIST and an
\* unregister of a descriptor that is not the stored one fails with
\* EDPVS_NOTEXIST, both leaving every slot as it was; a slot changes only
\* from empty to d by a successful register(d) and from d to empty by a
\* successful unregister(d).
C7_Step ==
    LET c == regop' IN
    /\ (c.op = "register" /\ inet6_prots[c.protocol] # NULL) =>
          (c.err = "EDPVS_EXIST" /\ inet6_prots' = inet6_prots)
    /\ (c.op = "unregister" /\ inet6_prots[c.protocol] # c.prot) =>
          (c.err = "EDPVS_NOTEXIST" /\ inet6_prots' = inet6_prots)
    /\ \A p \in Prots :
          inet6_prots'[p] # inet6_prots[p] =>
            /\ c.protocol = p
            /\ c.err = "EDPVS_OK"
            /\ \/ /\ c.op = "register"
                  /\ inet6_prots[p] = NULL
                  /\ inet6_prots'[p] = c.prot
               \/ /\ c.op = "unregister"
                  /\ inet6_prots[p] = c.prot
                  /\ inet6_prots'[p] = NULL
C7_RegistryFailuresChangeNothing == [][C7_Step]_vars

C7_Witness ==
    /\ regop.op = "register"
    /\ regop.err = "EDPVS_EXIST"
    /\ regop.prot = "fin"
    /\ inet6_prots[regop.protocol] = "ext"

\* the hop limit the packet had when ip6_forward was entered
C8_Case ==
    /\ "ip6_forward" \in acct.stages
    /\ conf_ipv6_forwarding
    /\ mbuf.packet_type = "ETH_PKT_HOST"
    /\ ~IsMcast(mbuf.hdr.dst)
    /\ "RTF_FORWARD" \in rt.rt6_flags
    /\ "hook_forward" \notin acct.stages
    /\ mbuf.hdr.hlim <= 1
C8_Dropped ==
    /\ Done
    /\ acct.freed = 1
    /\ result = "EDPVS_INVAL"
    /\ acct.stages \cap {"hook_forward", "ip6_output", "neigh_output"} = {}
    /\ stats["inhdrerrors"] = 1
C8_OtherCounters == StatNames \ {"inpkts", "inoctets", "inhdrerrors"}

\* C8 (as stated): with forwarding enabled, a host frame, a unicast
\* destination and a forward route, a packet of hop limit 1 or 0 is
\* dropped by forward() before the forward hook and the output engine, and
\* both the header-error counter and a hop-exceeded counter are
\* incremented.
C8_HopLimitTwoCounters ==
    /\ ("ip6_forward" \in acct.stages /\ "hook_forward" \in acct.stages)
          => mbuf.hdr.hlim >= 1
    /\ C8_Case => (C8_Dropped /\ \E f \in C8_OtherCounters : stats[f] >= 1)

\* C8 (amended): ... is dropped by forward() before the forward hook and
\* the output engine, and the header-error counter alone is incremented:
\* the code keeps no hop-exceeded counter.
C8_HopLimitDropped ==
    /\ ("ip6_forward" \in acct.stages /\ "hook_forward" \in acct.stages)
          => mbuf.hdr.hlim >= 1
    /\ C8_Case => (C8_Dropped /\ \A f \in C8_OtherCounters : stats[f] = 0)

C8_Witness ==
    /\ C8_Case
    /\ mbuf.hdr.hlim = 1
    /\ Done


\* the packet was handed to the external consumer: not freed, the binding
\* (if any) released, EDPVS_KNICONTINUE returned
C11_HandOff ==
    /\ Done
    /\ result = "EDPVS_KNICONTINUE"
    /\ acct.freed = 0
    /\ acct.kni = 1
    /\ acct.puts = acct.gets
C11_Forwarded == pc = "ip6_forward" \/ "ip6_forward" \in acct.stages
C11_LocalDelivery == "hook_local_in" \in acct.stages

\* C11: after the pre-routing hook, no route counts innoroutes and hands
\* the packet off unfreed; else exactly one branch is taken, in the order
\* (a) local-in route -> local delivery, also for a multicast destination,
\* (b) multicast destination -> local delivery only for a member, else
\* release and hand-off, (c) forward route -> forward() for a host frame,
\* else hand-off, (d) no-route counted and hand-off.
C11_DispatchPrecedence ==
    "route6_input" \in acct.stages =>
      IF acct.gets = 0
      THEN C11_HandOff /\ stats["innoroutes"] = 1
           /\ ~C11_LocalDelivery /\ ~C11_Forwarded
      ELSE IF "RTF_LOCALIN" \in rt.rt6_flags
      THEN /\ C11_LocalDelivery
           /\ acct.member = "none"
           /\ stats["inmcastpkts"] = 0
           /\ ~C11_Forwarded
           /\ stats["innoroutes"] = 0
      ELSE IF mbuf.hdr.dst \in {"ff00::1", "ff01::1", "ff02::1"}
      THEN /\ ~C11_Forwarded
           /\ stats["innoroutes"] = 0
           /\ C11_LocalDelivery <=> acct.member = "yes"
           /\ acct.member = "no" => C11_HandOff
           /\ acct.member = "none" => pc = "ip6_mc_local_in"
      ELSE IF "RTF_FORWARD" \in rt.rt6_flags
      THEN /\ ~C11_LocalDelivery
           /\ acct.member = "none"
           /\ stats["innoroutes"] = 0
           /\ IF mbuf.packet_type = "ETH_PKT_HOST"
              THEN C11_Forwarded
              ELSE C11_HandOff /\ ~C11_Forwarded
      ELSE /\ C11_HandOff
           /\ stats["innoroutes"] = 1
           /\ ~C11_LocalDelivery
           /\ ~C11_Forwarded

\* a multicast destination on a local-in route went to local delivery
\* without the membership being asked
C11_Witness ==
    /\ "route6_input" \in acct.stages
    /\ acct.gets = 1
    /\ "RTF_LOCALIN" \in rt.rt6_flags
    /\ mbuf.hdr.dst = "ff02::1"
    /\ C11_LocalDelivery
    /\ acct.member = "none"


\* the effective path MTU: route MTU if set, else device MTU if set, else
\* the floor, raised to the floor if below it
C12_PathMtu ==
    LET m == IF rt.rt6_mtu # 0 THEN rt.rt6_mtu
             ELSE IF rt.dev_mtu # 0 THEN rt.dev_mtu ELSE 1280
    IN IF m < 1280 THEN 1280 ELSE m

\* C12: a transit packet reaches the forward hook only if forwarding is
\* enabled, the destination is not multicast, the hop limit on entry was
\* greater than 1, the source is not unspecified, multicast, loopback or
\* link-local and the length is within the effective path MTU; its hop
\* limit at the hook is the arrival value minus one; in every other case
\* forward() drops the packet and the output engine is not invoked.
C12_ForwardPreconditions ==
    /\ "hook_forward" \in acct.stages =>
          /\ conf_ipv6_forwarding
          /\ mbuf.hdr.dst \notin {"ff00::1", "ff01::1", "ff02::1"}
          /\ acct.entry_hlim > 1
          /\ mbuf.hdr.src \notin {"::", "::1", "fe80::1", "ff02::1"}
          /\ mbuf.pkt_len <= C12_PathMtu
          /\ mbuf.hdr.hlim = acct.entry_hlim - 1
    /\ ("ip6_forward" \in acct.stages /\ "hook_forward" \notin acct.stages) =>
          /\ Done
          /\ acct.freed = 1
          /\ result = "EDPVS_INVAL"
          /\ acct.stages \cap {"ip6_output", "neigh_output"} = {}
    /\ ("ip6_rcv" \in acct.stages /\ "ip6_output" \in acct.stages) =>
          "hook_forward" \in acct.stages

\* a frame longer than the floor passed on the MTU of the egress device
C12_Witness ==
    /\ "hook_forward" \in acct.stages
    /\ mbuf.pkt_len > 1280
    /\ rt.rt6_mtu = 0
    /\ rt.dev_mtu = 1500
    /\ mbuf.hdr.hlim = 63


\* C13: transmit() rejects, before any route lookup, every packet longer
\* than 65535 bytes; for every packet it hands to the local-out hook the
\* 16-bit payload length equals the buffer length minus 40 without
\* wrap-around, the version is 6 and the hop limit is the flow's TTL if
\* that is not zero and the default 64 otherwise, never 0.
C13_TransmitLengths ==
    /\ ("ipv6_xmit" \in acct.stages /\ acct.entry_len > 65535) =>
          /\ Done
          /\ result \in {"EDPVS_NOROOM", "EDPVS_INVAL"}
          /\ acct.stages \cap {"route6_output", "hook_local_out"} = {}
          /\ acct.gets = 0
    /\ "hook_local_out" \in acct.stages =>
          /\ mbuf.hdr.plen = mbuf.pkt_len - 40
          /\ mbuf.hdr.plen = acct.entry_len
          /\ mbuf.hdr.plen \in 0..65535
          /\ mbuf.hdr.ver = 6
          /\ mbuf.hdr.hlim = IF acct.fl6_ttl # 0 THEN acct.fl6_ttl ELSE 64
          /\ mbuf.hdr.hlim # 0

\* the largest payload went out, with the default hop limit
C13_Witness ==
    /\ "hook_local_out" \in acct.stages
    /\ acct.entry_len = 65535
    /\ mbuf.pkt_len = 65575
    /\ acct.fl6_ttl = 0
    /\ mbuf.hdr.hlim = 64


\* C14: each time the walker advances the buffer by the scratch offset, an
\* offset of zero, a negative one or one larger than the remaining buffer
\* is a fatal drop: the packet is freed, a discard is counted, and no
\* lookup or handler follows; so the lookup behind step 1 is reached only
\* with an offset that is positive and no larger than what remained.
C14_BadOffsetIsFatal ==
    /\ (pc = "resubmit_final" /\ ~walk.is_final) =>
          /\ mbuf.l3_len > 0
          /\ mbuf.data_off >= mbuf.l3_len
    /\ "adj_fail" \in acct.stages =>
          /\ Done
          /\ acct.freed = 1
          /\ stats["indiscards"] = 1
          /\ result = "EDPVS_INVAL"
          /\ mbuf.l3_len > mbuf.pkt_len


\* C15: with handlers that keep the return contract, a packet that has
\* entered the extension-chain walker eventually leaves it, in a drop, a
\* hand-off or a counted delivery: neither the general loop nor the
\* final-protocol sub-loop runs for ever.
C15_WalkerTerminates ==
    (pc \in {"resubmit", "resubmit_final", "read_locked", "handler"})
        ~> (pc = "done")


\* C16: the attached slot of a packet references at most one binding, and
\* once receive() or transmit() has freed the packet or handed it to the
\* external consumer the slot no longer references a binding (drops by a
\* hook aside).
C16_SlotClearedOnExit ==
    /\ acct.gets <= 1
    /\ mbuf.userdata = "rt" => acct.gets = 1
    /\ (Done /\ "hook_drop" \notin acct.stages
             /\ (acct.freed >= 1 \/ acct.kni >= 1)) =>
          mbuf.userdata # "rt"


\* C17: a packet that passed the MTU check of ip6_forward and that the
\* forward and post-routing hooks accepted, with the stack enabled, is
\* given to link-layer resolution and never dropped by the fragmentation
\* stub, whatever the route MTU (unset and below the floor included).
C17_ForwardedNeverFragmented ==
    (/\ Done
     /\ "hook_forward" \in acct.stages
     /\ "hook_drop" \notin acct.stages
     /\ ~conf_ipv6_disable) =>
        /\ "ip6_fragment" \notin acct.stages
        /\ acct.neigh = 1
        /\ acct.freed = 0


\* C18: with the registry changed by another core while a packet is walked,
\* no handler is called whose descriptor is no longer registered for the
\* next header (its unregister has returned), and the walker holds no
\* registry lock while a handler runs nor once it has returned.
C18_NoCallAfterUnregister ==
    /\ ~acct.stale_call
    /\ pc \in {"handler", "done", "idle"} => inet6_prot_lock = 0


\* C19: when ipv6_init returns an error, the sub-components it has torn
\* down are exactly those whose initialisation had succeeded: none that
\* failed or was never attempted, and none left up; when every step
\* succeeds nothing is torn down.
C19_InitUnwinds ==
    /\ boot.status = "init_failed" =>
          /\ boot.unwound = boot.started
          /\ boot.up = {}
    /\ boot.status = "running" => boot.unwound = {}

\* C20: whenever receive() ends with the hand-off result, the buffer of the
\* packet starts where it started and is as long as it was when the
\* pre-routing hook was dispatched: no header has been stripped from it.
C20_HandOffFrame ==
    (/\ Done
     /\ "hook_pre" \in acct.stages
     /\ result = "EDPVS_KNICONTINUE") =>
        /\ mbuf.data_off = 0
        /\ mbuf.pkt_len = acct.hook_len

====
